---- MODULE Spec2Model ----
(***************************************************************************)
(* A model of juliett.js: the BaseItemList collection, the DataField       *)
(* constructor with the Enumerator proxy it consults, the Payload wrapper  *)
(* and the BaseController / DataController request-response pair.          *)
(*                                                                         *)
(* JavaScript values are modelled by strings and records; a JavaScript     *)
(* array is a sequence whose element k lives at position k+1 and whose     *)
(* holes hold Empty.                                                       *)
(***************************************************************************)
EXTENDS Integers, Sequences, FiniteSets, Bags, TLC

VARIABLES
    length,                 \* BaseItemList.#length
    items,                  \* BaseItemList.#items (array, holes are Empty)
    listCall,               \* outcome of the last BaseItemList call
    field,                  \* outcome of the last new DataField(...)
    kind,                   \* class of the controller instance
    recipient,              \* BaseController.#recipient
    sender,                 \* BaseController.#sender
    payload,                \* BaseController.#payload
    onSuccessEventHandler,  \* BaseController.#onSuccessEventHandler
    onErrorEventHandler,    \* BaseController.#onErrorEventHandler
    content,                \* Payload.#content of every Payload instance
    requests,               \* the XMLHttpRequests sent and not yet complete
    settled,                \* the promise chain of the request that completed last
    ctlCall                 \* outcome of the last controller / payload call

listVars == <<length, items, listCall>>
fieldVars == <<field>>
ctlVars == <<kind, recipient, sender, payload, onSuccessEventHandler,
             onErrorEventHandler, content, requests, settled, ctlCall>>
vars == <<listVars, fieldVars, ctlVars>>

(***************************************************************************)
(* Bounds of the model.                                                    *)
(***************************************************************************)
MaxListLen == 3        \* push is enabled while length < MaxListLen
MaxOutstanding == 2    \* execute is enabled while fewer requests are pending
MaxContent == 1        \* addContent is enabled while #content is shorter
MaxTime == 0           \* Date.now() yields a value of 0..MaxTime

(***************************************************************************)
(* JavaScript values shared by the parts of the model.                     *)
(***************************************************************************)
Null == "null"
Undefined == "undefined"
Empty == "<empty>"
NoThrow == "none"

\* ------------------------------------------------------------------------
\* JavaScript arrays
\* ------------------------------------------------------------------------
RECURSIVE Holes(_)
Holes(n) == IF n <= 0 THEN <<>> ELSE Append(Holes(n - 1), Empty)

\* arr[k], undefined for a hole and beyond the end
ArrayGet(arr, k) ==
    IF k >= 0 /\ k < Len(arr) /\ arr[k + 1] # Empty THEN arr[k + 1] ELSE Undefined

\* arr[k] = v, growing the array with holes when k is beyond the end
ArraySet(arr, k, v) ==
    IF k < Len(arr) THEN [arr EXCEPT ![k + 1] = v]
    ELSE Append(arr \o Holes(k - Len(arr)), v)

\* delete arr[k]: the slot becomes a hole, the array keeps its size
ArrayDelete(arr, k) ==
    IF k >= 0 /\ k < Len(arr) THEN [arr EXCEPT ![k + 1] = Empty] ELSE arr

\* ------------------------------------------------------------------------
\* BaseItemList
\* ------------------------------------------------------------------------
BaseItems == {"itemA", "itemB"}          \* instances of BaseItem
NotBaseItem == "plain object"            \* an object that is no BaseItem
PushArgs == BaseItems \cup {Null, NotBaseItem}
Indexes == -1 .. MaxListLen

ListCall(op, thrown, ret) == [op |-> op, thrown |-> thrown, ret |-> ret]

\* obj == null || !(obj instanceof BaseItem)
NotABaseItem(obj) == obj = Null \/ obj \notin BaseItems

\* index < 0 || index > this.length-1
OutOfBounds(index) == index < 0 \/ index > length - 1

ListFrame == UNCHANGED <<field, kind, recipient, sender, payload, onSuccessEventHandler,
                         onErrorEventHandler, content, requests, settled, ctlCall>>

ListInit ==
    /\ length = 0
    /\ items = <<>>
    /\ listCall = ListCall("constructor", NoThrow, Undefined)

item(index) ==
    /\ ListFrame
    /\ listCall' = IF OutOfBounds(index)
                   THEN ListCall("item", "RangeError", Undefined)
                   ELSE ListCall("item", NoThrow, ArrayGet(items, index))
    /\ UNCHANGED <<length, items>>

\* the message of the TypeError reads obj.constructor.name, which for null
\* raises a TypeError of its own
push(obj) ==
    /\ ListFrame
    /\ IF NotABaseItem(obj)
       THEN /\ listCall' = ListCall("push", "TypeError", Undefined)
            /\ UNCHANGED <<length, items>>
       ELSE /\ length < MaxListLen
            /\ items' = ArraySet(items, length, obj)
            /\ length' = length + 1
            /\ listCall' = ListCall("push", NoThrow, Undefined)

pop ==
    /\ ListFrame
    /\ IF length > 0
       THEN /\ length' = length - 1
            /\ items' = ArrayDelete(items, length - 1)
       ELSE UNCHANGED <<length, items>>
    /\ listCall' = ListCall("pop", NoThrow, Undefined)

DeleteItems(index) == ArrayDelete(items, index)

delete(index) ==
    /\ ListFrame
    /\ IF OutOfBounds(index)
       THEN /\ listCall' = ListCall("delete", "RangeError", Undefined)
            /\ UNCHANGED <<length, items>>
       ELSE /\ items' = DeleteItems(index)
            /\ length' = length - 1
            /\ listCall' = ListCall("delete", NoThrow, Undefined)

\* the message of the TypeError reads element.constructor.name, and no
\* element is in scope: evaluating it raises a ReferenceError instead
replace(index, obj) ==
    /\ ListFrame
    /\ IF OutOfBounds(index)
       THEN /\ listCall' = ListCall("replace", "RangeError", Undefined)
            /\ UNCHANGED <<length, items>>
       ELSE IF NotABaseItem(obj)
       THEN /\ listCall' = ListCall("replace", "ReferenceError", Undefined)
            /\ UNCHANGED <<length, items>>
       ELSE /\ items' = ArraySet(items, index, obj)
            /\ listCall' = ListCall("replace", NoThrow, Undefined)
            /\ UNCHANGED length

clear ==
    /\ ListFrame
    /\ items' = <<>>
    /\ length' = 0
    /\ listCall' = ListCall("clear", NoThrow, Undefined)

\* ------------------------------------------------------------------------
\* Enumerator, DataFieldType and DataField
\* ------------------------------------------------------------------------
MaxFieldType == 5      \* numeric fieldType arguments are 0..MaxFieldType

Num(n) == [t |-> "number", n |-> n]
Str(s) == [t |-> "string", s |-> s]
Undef == [t |-> "undefined"]
Fn == [t |-> "function"]

\* ToBoolean of a JavaScript value
ToBoolean(v) ==
    CASE v.t = "number" -> v.n # 0
      [] v.t = "string" -> v.s # ""
      [] v.t = "function" -> TRUE
      [] OTHER -> FALSE

\* ToPropertyKey of a number or a string
ToPropertyKey(v) == IF v.t = "number" THEN ToString(v.n) ELSE v.s

\* {"String":1, "Number":2, "DateTime": 3, "Boolean":4}, in insertion order
DataFieldTypeObj ==
    << <<"String", Num(1)>>, <<"Number", Num(2)>>,
       <<"DateTime", Num(3)>>, <<"Boolean", Num(4)>> >>

\* what a plain object and an array inherit from their prototypes
ObjectPrototypeKeys == {"constructor", "toString", "hasOwnProperty"}
ArrayPrototypeKeys == {"push", "pop"} \cup ObjectPrototypeKeys

\* prop in obj
In(obj, prop) ==
    \/ \E i \in 1 .. Len(obj) : obj[i][1] = prop
    \/ prop \in ObjectPrototypeKeys

\* obj[prop]
Get(obj, prop) ==
    IF \E i \in 1 .. Len(obj) : obj[i][1] = prop
    THEN obj[CHOOSE i \in 1 .. Len(obj) : obj[i][1] = prop][2]
    ELSE IF prop \in ObjectPrototypeKeys THEN Fn ELSE Undef

\* Reflect.ownKeys(obj): the keys are strings, kept in insertion order
OwnKeys(obj) == [i \in 1 .. Len(obj) |-> Str(obj[i][1])]

\* arr[prop] for a property key: an index, "length" or an inherited method
ArrayProp(arr, prop) ==
    IF \E k \in 0 .. Len(arr) - 1 : ToString(k) = prop
    THEN arr[(CHOOSE k \in 0 .. Len(arr) - 1 : ToString(k) = prop) + 1]
    ELSE IF prop = "length" THEN Num(Len(arr))
    ELSE IF prop \in ArrayPrototypeKeys THEN Fn ELSE Undef

\* the has trap of the proxy the Enumerator constructor returns
HasTrap(obj, prop) ==
    IF In(obj, prop) THEN Get(obj, prop) ELSE ArrayProp(OwnKeys(obj), prop)

\* the get trap of the proxy
GetTrap(obj, prop) == IF In(obj, prop) THEN Get(obj, prop) ELSE [t |-> "null"]

\* fieldType in DataFieldType: the trap's result, converted to a boolean
InDataFieldType(fieldType) ==
    ToBoolean(HasTrap(DataFieldTypeObj, ToPropertyKey(fieldType)))

FieldTypeArgs ==
    {Num(n) : n \in 0 .. MaxFieldType}
        \cup {Str(s) : s \in {"String", "Boolean", "length", "toString", "Date"}}
FieldNames == {"name", "age"}
FieldValues == {Str(""), Num(7)}
Callbacks == {Fn, Undef}

FieldInit == field = [op |-> "none"]

\* new DataField(fieldName, fieldType, fieldValue, isRequired, onValidateCallback);
\* this.onValidateCallback.bind(this) raises a TypeError when no callback is given
DataField(fieldName, fieldType, fieldValue, isRequired, onValidateCallback) ==
    /\ UNCHANGED <<length, items, listCall, kind, recipient, sender, payload,
                   onSuccessEventHandler, onErrorEventHandler, content, requests,
                   settled, ctlCall>>
    /\ field' = [op |-> "new DataField",
                 fieldName |-> fieldName,
                 fieldType |-> fieldType,
                 fieldValue |-> fieldValue,
                 isRequired |-> isRequired,
                 onValidateCallback |-> onValidateCallback,
                 thrown |-> IF ~InDataFieldType(fieldType) THEN "TypeError"
                            ELSE IF onValidateCallback.t # "function" THEN "TypeError"
                            ELSE NoThrow]

\* ------------------------------------------------------------------------
\* Values of the controller part
\* ------------------------------------------------------------------------
JsNull == [t |-> "null"]
Bool(b) == [t |-> "boolean", b |-> b]
Text(chars) == [t |-> "string", s |-> chars]      \* a string, as its characters
Func(name) == [t |-> "function", name |-> name]
PayloadObj(id) == [t |-> "object", class |-> "Payload", id |-> id]
PlainObj == [t |-> "object", class |-> "Object", id |-> 0]
Thrown(class, by) == [t |-> "error", class |-> class, by |-> by]

PayloadIds == {1, 2}
Payloads == {PayloadObj(id) : id \in PayloadIds}

\* ------------------------------------------------------------------------
\* PATTERN_URL = /^(http)s?:\/\/(www|localhost)(.|\/)[a-z0-9-\.\/]+/
\* ------------------------------------------------------------------------
LowerCase == {"a", "b", "c", "d", "e", "f", "g", "h", "i", "j", "k", "l", "m",
              "n", "o", "p", "q", "r", "s", "t", "u", "v", "w", "x", "y", "z"}
Digits == {"0", "1", "2", "3", "4", "5", "6", "7", "8", "9"}
UrlClass == LowerCase \cup Digits \cup {"-", ".", "/"}      \* [a-z0-9-\.\/]
LineTerminators == {"\n", "\r"}                              \* what . refuses

\* the literal lit stands in s at position pos
HasAt(s, pos, lit) ==
    /\ pos + Len(lit) - 1 <= Len(s)
    /\ \A i \in 1 .. Len(lit) : s[pos + i - 1] = lit[i]

\* PATTERN_URL.test(s); the pattern carries no g flag, so test keeps no state
PatternUrlTest(s) ==
    /\ HasAt(s, 1, <<"h", "t", "t", "p">>)
    /\ \E p2 \in {5, 6} :
        /\ p2 = 6 => HasAt(s, 5, <<"s">>)
        /\ HasAt(s, p2, <<":", "/", "/">>)
        /\ \E host \in {<<"w", "w", "w">>,
                        <<"l", "o", "c", "a", "l", "h", "o", "s", "t">>} :
            /\ HasAt(s, p2 + 3, host)
            /\ LET p4 == p2 + 3 + Len(host)
               IN /\ p4 + 1 <= Len(s)
                  /\ s[p4] \notin LineTerminators
                  /\ s[p4 + 1] \in UrlClass

UrlA == <<"h", "t", "t", "p", ":", "/", "/", "w", "w", "w", ".", "a">>
UrlB == <<"h", "t", "t", "p", "s", ":", "/", "/",
          "l", "o", "c", "a", "l", "h", "o", "s", "t", "/", "b">>
UrlShort == <<"h", "t", "t", "p", ":", "/", "/", "w", "w", "w", ".">>
UrlFtp == <<"f", "t", "p", ":", "/", "/", "w", "w", "w", ".", "a">>
UrlUpper == <<"h", "t", "t", "p", ":", "/", "/", "w", "w", "w", ".", "A">>

RecipientArgs ==
    {Text(UrlA), Text(UrlB), Text(UrlShort), Text(UrlFtp), Text(UrlUpper),
     JsNull, Undef, Num(42)}
SenderArgs == {Text(UrlA), Text(UrlFtp), JsNull, Num(42)}
PayloadArgs == Payloads \cup {JsNull, Undef, PlainObj}
HandlerArgs == {Func("user"), JsNull, Num(42)}

\* ------------------------------------------------------------------------
\* Payload
\* ------------------------------------------------------------------------
BodyObjs == {Num(1), Num(2)}
Times == 0 .. MaxTime

\* requestor.constructor.name of the object the instance was built with
PayloadRequestor(id) == IF id = 1 THEN "Form" ELSE "Object"

Entry(requestor, time, obj) ==
    [header |-> [requestor |-> requestor, time |-> time], body |-> obj]

\* this.content: the class defines set content and no get content, so
\* reading the accessor yields undefined whatever #content holds
PayloadGetContent(id) == Undef

\* Payload.toJSON
PayloadToJSON(id) == PayloadGetContent(id)

\* the JSON text of one entry and of an array of entries
EntryText(e) ==
    "{\"header\":{\"requestor\":\"" \o e.header.requestor \o "\",\"time\":"
        \o ToString(e.header.time) \o "},\"body\":" \o ToString(e.body.n) \o "}"

RECURSIVE EntriesText(_)
EntriesText(es) ==
    IF es = <<>> THEN ""
    ELSE IF Len(es) = 1 THEN EntryText(es[1])
    ELSE EntryText(es[1]) \o "," \o EntriesText(Tail(es))

ArrayText(es) == "[" \o EntriesText(es) \o "]"

\* JSON.stringify(value) for a Payload: the text of what toJSON returns,
\* undefined when toJSON returns undefined
JSONStringify(value) ==
    LET json == PayloadToJSON(value.id)
    IN IF json.t = "undefined" THEN Undef
       ELSE [t |-> "json", text |-> ArrayText(json.elems)]

\* ------------------------------------------------------------------------
\* BaseController and DataController
\*
\* window.XMLHttpRequest is taken to exist.  The callbacks the promise
\* chain queues run as microtasks, before the next task of the event loop:
\* while one is pending no other operation is enabled.  ctlCall and settled
\* describe the current turn of the event loop only.
\* ------------------------------------------------------------------------
Statuses == {200, 404, 0}
ResponseTexts == {"", "body"}
ReadyStates == {2, 3, 4}
Outcomes == {"return", "throw"}          \* what a caller-supplied function does

Idle == [pc |-> "idle"]
NoCall == [op |-> "none", thrown |-> NoThrow]
Call(op, thrown) == [op |-> op, thrown |-> thrown]

DataControllerStatusObj == << <<"Succeeded", Bool(TRUE)>>, <<"Failed", Bool(FALSE)>> >>

DcSuccess == Func("DataController.onSuccessEventHandler")
DcError == Func("DataController.onErrorEventHandler")

MicrotaskPending == settled.pc \in {"then", "catch"}

CtlFrame == UNCHANGED <<length, items, listCall, field>>

\* constructors: BaseController(), or DataController(requestor), which hands
\* its own two methods to the setters of the base class
CtlInit ==
    /\ kind \in {"BaseController", "DataController"}
    /\ recipient = JsNull
    /\ sender = Undef
    /\ payload = JsNull
    /\ onSuccessEventHandler = IF kind = "DataController" THEN DcSuccess ELSE JsNull
    /\ onErrorEventHandler = IF kind = "DataController" THEN DcError ELSE JsNull
    /\ content = [id \in PayloadIds |-> <<>>]
    /\ requests = EmptyBag
    /\ settled = Idle
    /\ ctlCall = NoCall

\* !(newValue instanceof Payload) || newValue == null
PayloadRejects(newValue) ==
    ~(newValue.t = "object" /\ newValue.class = "Payload") \/ newValue.t \in {"null", "undefined"}

\* the guard with the pattern test left out
UrlRejectsNoPattern(newValue) ==
    \/ newValue.t \in {"null", "undefined"}
    \/ newValue.t # "string"

\* newValue == null || !(typeof newValue === "string") || PATTERN_URL.test(newValue) == false
UrlRejects(newValue) ==
    \/ newValue.t \in {"null", "undefined"}
    \/ newValue.t # "string"
    \/ ~PatternUrlTest(newValue.s)

\* a synchronous call that is no part of a promise chain
SyncCall(op, thrown) ==
    /\ CtlFrame
    /\ ~MicrotaskPending
    /\ ctlCall' = Call(op, thrown)
    /\ settled' = Idle

set_payload(newValue) ==
    IF PayloadRejects(newValue)
    THEN /\ SyncCall("set payload", "TypeError")
         /\ UNCHANGED <<kind, recipient, sender, payload, onSuccessEventHandler,
                        onErrorEventHandler, content, requests>>
    ELSE /\ SyncCall("set payload", NoThrow)
         /\ payload' = newValue
         /\ UNCHANGED <<kind, recipient, sender, onSuccessEventHandler,
                        onErrorEventHandler, content, requests>>

set_recipient(newValue) ==
    IF UrlRejects(newValue)
    THEN /\ SyncCall("set recipient", "TypeError")
         /\ UNCHANGED <<kind, recipient, sender, payload, onSuccessEventHandler,
                        onErrorEventHandler, content, requests>>
    ELSE /\ SyncCall("set recipient", NoThrow)
         /\ recipient' = newValue
         /\ UNCHANGED <<kind, sender, payload, onSuccessEventHandler,
                        onErrorEventHandler, content, requests>>

set_sender(newValue) ==
    IF UrlRejects(newValue)
    THEN /\ SyncCall("set sender", "TypeError")
         /\ UNCHANGED <<kind, recipient, sender, payload, onSuccessEventHandler,
                        onErrorEventHandler, content, requests>>
    ELSE /\ SyncCall("set sender", NoThrow)
         /\ sender' = newValue
         /\ UNCHANGED <<kind, recipient, payload, onSuccessEventHandler,
                        onErrorEventHandler, content, requests>>

\* (newValue != null && typeof newValue == "function") ? newValue : null
HandlerOrNull(newValue) == IF newValue.t = "function" THEN newValue ELSE JsNull

\* DataController declares methods of the same names, which shadow the two
\* accessors: on a DataController an assignment does not reach the setter
set_onSuccessEventHandler(newValue) ==
    /\ kind = "BaseController"
    /\ SyncCall("set onSuccessEventHandler", NoThrow)
    /\ onSuccessEventHandler' = HandlerOrNull(newValue)
    /\ UNCHANGED <<kind, recipient, sender, payload, onErrorEventHandler,
                   content, requests>>

set_onErrorEventHandler(newValue) ==
    /\ kind = "BaseController"
    /\ SyncCall("set onErrorEventHandler", NoThrow)
    /\ onErrorEventHandler' = HandlerOrNull(newValue)
    /\ UNCHANGED <<kind, recipient, sender, payload, onSuccessEventHandler,
                   content, requests>>

\* request.open("POST", self.recipient); request.send(JSON.stringify(self.payload));
\* held remembers the payload the controller held at this call
NewRequest == [url |-> recipient, body |-> JSONStringify(payload), held |-> payload]

\* execute with the payload guard left out
executeNoPayloadGuard ==
    IF recipient = JsNull
    THEN /\ SyncCall("execute", "Error")
         /\ UNCHANGED <<kind, recipient, sender, payload, onSuccessEventHandler,
                        onErrorEventHandler, content, requests>>
    ELSE /\ BagCardinality(requests) < MaxOutstanding
         /\ SyncCall("execute", NoThrow)
         /\ requests' = requests (+) SetToBag({[url |-> recipient, body |-> Undef,
                                                held |-> payload]})
         /\ UNCHANGED <<kind, recipient, sender, payload, onSuccessEventHandler,
                        onErrorEventHandler, content>>

execute ==
    IF recipient = JsNull \/ payload = JsNull
    THEN /\ SyncCall("execute", "Error")
         /\ UNCHANGED <<kind, recipient, sender, payload, onSuccessEventHandler,
                        onErrorEventHandler, content, requests>>
    ELSE /\ BagCardinality(requests) < MaxOutstanding
         /\ SyncCall("execute", NoThrow)
         /\ requests' = requests (+) SetToBag({NewRequest})
         /\ UNCHANGED <<kind, recipient, sender, payload, onSuccessEventHandler,
                        onErrorEventHandler, content>>

\* the value the promise of request r is resolved with
Resolved(r, responseText) ==
    [sender |-> sender, recipient |-> recipient, sent |-> payload,
     received |-> responseText]

\* the value the promise is rejected with
Rejected(status, responseText) ==
    [errorCode |-> status, errorMessage |-> responseText]

\* the chain with status 0 taken for a success as well
ChainZeroIsSuccess(r, status, responseText) ==
    [pc |-> IF status \in {200, 0} THEN "then" ELSE "catch",
     status |-> status,
     responseText |-> responseText,
     held |-> r.held,
     arg |-> IF status \in {200, 0} THEN Resolved(r, responseText)
             ELSE Rejected(status, responseText),
     success |-> <<>>,
     error |-> <<>>,
     events |-> <<>>,
     unhandled |-> FALSE]

\* the chain promisse.then(...).catch(...) once the promise is settled
Chain(r, status, responseText) ==
    [pc |-> IF status = 200 THEN "then" ELSE "catch",
     status |-> status,
     responseText |-> responseText,
     held |-> r.held,
     arg |-> IF status = 200 THEN Resolved(r, responseText)
             ELSE Rejected(status, responseText),
     success |-> <<>>,        \* arguments of the calls of the success handler
     error |-> <<>>,          \* arguments of the calls of the error handler
     events |-> <<>>,         \* requestor.onDataControllerCallbackEvent calls
     unhandled |-> FALSE]     \* the chain ended in an unhandled rejection

\* request.onreadystatechange, run by the browser for request r
onreadystatechange(r, readyState, status, responseText) ==
    /\ CtlFrame
    /\ ~MicrotaskPending
    /\ BagIn(r, requests)
    /\ ctlCall' = NoCall
    /\ IF readyState = 4
       THEN /\ requests' = requests (-) SetToBag({r})
            /\ settled' = Chain(r, status, responseText)
       ELSE /\ settled' = Idle
            /\ UNCHANGED requests
    /\ UNCHANGED <<kind, recipient, sender, payload, onSuccessEventHandler,
                   onErrorEventHandler, content>>

\* a caller-supplied function ran with outcome o: the chain ends, or goes on
\* to the catch callback with what was thrown
AfterSuccessCall(o) ==
    [settled EXCEPT !.success = Append(@, settled.arg),
                    !.pc = IF o = "return" THEN "done" ELSE "catch",
                    !.arg = IF o = "return" THEN @ ELSE Thrown("Error", "success handler")]

AfterErrorCall(o) ==
    [settled EXCEPT !.error = Append(@, settled.arg),
                    !.pc = "done",
                    !.unhandled = (o = "throw")]

\* requestor.onDataControllerCallbackEvent({status: DataControllerStatus[name], payload: response})
Event(name, response) ==
    [status |-> GetTrap(DataControllerStatusObj, name), payload |-> response]

\* resolve => { self.#onSuccessEventHandler(resolve) }
thenCallback ==
    /\ CtlFrame
    /\ settled.pc = "then"
    /\ IF onSuccessEventHandler.t # "function"
       THEN settled' = [settled EXCEPT !.pc = "catch",
                                       !.arg = Thrown("TypeError", "then callback")]
       ELSE \E o \in Outcomes :
               IF onSuccessEventHandler = DcSuccess
               THEN settled' = [AfterSuccessCall(o) EXCEPT
                                   !.events = Append(@, Event("Succeeded", settled.arg))]
               ELSE settled' = AfterSuccessCall(o)
    /\ UNCHANGED <<kind, recipient, sender, payload, onSuccessEventHandler,
                   onErrorEventHandler, content, requests, ctlCall>>

\* reject => { self.#onErrorEventHandler(reject) }
catchCallback ==
    /\ CtlFrame
    /\ settled.pc = "catch"
    /\ IF onErrorEventHandler.t # "function"
       THEN settled' = [settled EXCEPT !.pc = "done", !.unhandled = TRUE]
       ELSE \E o \in Outcomes :
               IF onErrorEventHandler = DcError
               THEN settled' = [AfterErrorCall(o) EXCEPT
                                   !.events = Append(@, Event("Failed", settled.arg))]
               ELSE settled' = AfterErrorCall(o)
    /\ UNCHANGED <<kind, recipient, sender, payload, onSuccessEventHandler,
                   onErrorEventHandler, content, requests, ctlCall>>

\* Payload.set content, which pushes
PayloadSetContent(id, newValue) == content' = [content EXCEPT ![id] = Append(@, newValue)]

addContent(id, obj, now) ==
    /\ Len(content[id]) < MaxContent
    /\ SyncCall("addContent", NoThrow)
    /\ PayloadSetContent(id, Entry(PayloadRequestor(id), now, obj))
    /\ UNCHANGED <<kind, recipient, sender, payload, onSuccessEventHandler,
                   onErrorEventHandler, requests>>

clearContent(id) ==
    /\ SyncCall("clearContent", NoThrow)
    /\ content' = [content EXCEPT ![id] = <<>>]
    /\ UNCHANGED <<kind, recipient, sender, payload, onSuccessEventHandler,
                   onErrorEventHandler, requests>>

\* ------------------------------------------------------------------------
\* Specifications
\* ------------------------------------------------------------------------
Init == ListInit /\ FieldInit /\ CtlInit

\* the controller
Next ==
    \/ \E newValue \in PayloadArgs : set_payload(newValue)
    \/ \E newValue \in RecipientArgs : set_recipient(newValue)
    \/ \E newValue \in SenderArgs : set_sender(newValue)
    \/ \E newValue \in HandlerArgs : set_onSuccessEventHandler(newValue)
    \/ \E newValue \in HandlerArgs : set_onErrorEventHandler(newValue)
    \/ execute
    \/ \E r \in BagToSet(requests), readyState \in ReadyStates,
          status \in Statuses, responseText \in ResponseTexts :
            onreadystatechange(r, readyState, status, responseText)
    \/ thenCallback
    \/ catchCallback

Spec == Init /\ [][Next]_vars

\* the controller and the payloads it sends
NextPayload ==
    \/ Next
    \/ \E id \in PayloadIds, obj \in BodyObjs, now \in Times : addContent(id, obj, now)
    \/ \E id \in PayloadIds : clearContent(id)

SpecPayload == Init /\ [][NextPayload]_vars

\* a BaseItemList
NextList ==
    \/ \E index \in Indexes : item(index)
    \/ \E obj \in PushArgs : push(obj)
    \/ pop
    \/ \E index \in Indexes : delete(index)
    \/ \E index \in Indexes, obj \in PushArgs : replace(index, obj)
    \/ clear

SpecList == Init /\ [][NextList]_vars

\* the DataField constructor
NextField ==
    \E fieldName \in FieldNames, fieldType \in FieldTypeArgs,
       fieldValue \in FieldValues, isRequired \in BOOLEAN,
       onValidateCallback \in Callbacks :
        DataField(fieldName, fieldType, fieldValue, isRequired, onValidateCallback)

SpecField == Init /\ [][NextField]_vars

\* ------------------------------------------------------------------------
\* Properties of the controller
\* ------------------------------------------------------------------------
ChainEnded == settled.pc = "done"
HandlersInstalled ==
    onSuccessEventHandler.t = "function" /\ onErrorEventHandler.t = "function"

\* C1: for a request that completed, with both handlers installed, exactly
\* one of the success handler and the error handler was invoked, exactly
\* once, whatever the invoked handler did.
C1_ExactlyOneHandlerOnce ==
    (ChainEnded /\ HandlersInstalled) =>
        Len(settled.success) + Len(settled.error) = 1

\* C2: when a request completes with status 200, the success handler
\* receives as sent the payload the controller held when execute() was
\* called for that request, and as received the response body.
C2_SentIsOriginalPayload ==
    (settled.pc # "idle" /\ settled.status = 200) =>
        \A i \in 1 .. Len(settled.success) :
            /\ DOMAIN settled.success[i] = {"sender", "recipient", "sent", "received"}
            /\ settled.success[i].sent = settled.held
            /\ settled.success[i].received = settled.responseText

\* C3: when a request completes with a status other than 200 the success
\* handler is not invoked, and the error handler, when one is installed, is
\* invoked once with {errorCode: the status, errorMessage: the response body}.
C3_ErrorPath ==
    (settled.pc # "idle" /\ settled.status # 200) =>
        /\ settled.success = <<>>
        /\ settled.events # <<>> => \A i \in 1 .. Len(settled.events) :
                                        settled.events[i].status = Bool(FALSE)
        /\ (ChainEnded /\ onErrorEventHandler.t = "function") =>
              settled.error = << [errorCode |-> settled.status,
                                  errorMessage |-> settled.responseText] >>

\* a request ended with 404 and the error handler ran with the status and the body
C3_Witness ==
    /\ ChainEnded
    /\ settled.status = 404
    /\ settled.error = << [errorCode |-> 404, errorMessage |-> "body"] >>
    /\ settled.success = <<>>

\* C4: at most one request of the controller is sent and not yet complete.
C4_AtMostOneOutstanding == BagCardinality(requests) <= 1

\* C5: the body execute() sends for a payload that holds content is the JSON
\* text of that content, one {header, body} entry per addContent in call
\* order, and so neither empty nor undefined.
C5_BodyIsJsonOfContent ==
    [][(ctlCall'.op = "execute" /\ ctlCall'.thrown = NoThrow /\ content[payload.id] # <<>>)
          => \E r \in BagToSet(requests') :
                /\ CopiesIn(r, requests') > CopiesIn(r, requests)
                /\ r.body = [t |-> "json", text |-> ArrayText(content[payload.id])]]_vars

\* C6: the payload, recipient and sender setters store a valid value as it
\* is, and for any other value throw a TypeError and leave every field of
\* the controller as it was.
ValidUrls == {Text(UrlA), Text(UrlB)}
CtlFields == <<recipient, sender, payload, onSuccessEventHandler, onErrorEventHandler,
               content, requests>>
SetterOutcome(valid, thrown, stored, newValue, others) ==
    IF valid
    THEN thrown = NoThrow /\ stored = newValue /\ others
    ELSE thrown = "TypeError" /\ UNCHANGED CtlFields

C6_SettersValidate ==
    [][/\ \A v \in PayloadArgs : set_payload(v) =>
             SetterOutcome(v \in Payloads, ctlCall'.thrown, payload', v,
                           UNCHANGED <<recipient, sender, onSuccessEventHandler,
                                       onErrorEventHandler, content, requests>>)
       /\ \A v \in RecipientArgs : set_recipient(v) =>
             SetterOutcome(v \in ValidUrls, ctlCall'.thrown, recipient', v,
                           UNCHANGED <<payload, sender, onSuccessEventHandler,
                                       onErrorEventHandler, content, requests>>)
       /\ \A v \in SenderArgs : set_sender(v) =>
             SetterOutcome(v \in ValidUrls, ctlCall'.thrown, sender', v,
                           UNCHANGED <<recipient, payload, onSuccessEventHandler,
                                       onErrorEventHandler, content, requests>>)]_vars

\* a setter threw a TypeError while the field held a value stored before
C6_Witness ==
    /\ ctlCall = Call("set recipient", "TypeError")
    /\ recipient = Text(UrlB)
    /\ payload \in Payloads

\* C8: on a DataController each completed request leads to exactly one
\* onDataControllerCallbackEvent, Succeeded exactly for status 200, and a
\* Failed event carries {errorCode, errorMessage} of the response.
C8_OneEventPerRequest ==
    (ChainEnded /\ kind = "DataController") =>
        /\ Len(settled.events) = 1
        /\ \A i \in 1 .. Len(settled.events) :
            /\ settled.events[i].status = Bool(settled.status = 200)
            /\ settled.events[i].status = Bool(FALSE) =>
                  settled.events[i].payload = [errorCode |-> settled.status,
                                               errorMessage |-> settled.responseText]

\* ------------------------------------------------------------------------
\* Properties of DataField
\* ------------------------------------------------------------------------
\* C7: with a function as callback the constructor succeeds exactly for the
\* fieldType values 1, 2, 3 and 4 and throws a TypeError for any other.
C7_AcceptsExactlyTheConstants ==
    (field.op = "new DataField" /\ field.onValidateCallback = Fn) =>
        /\ field.thrown \in {NoThrow, "TypeError"}
        /\ field.thrown = NoThrow <=> field.fieldType \in {Num(n) : n \in 1 .. 4}

\* ------------------------------------------------------------------------
\* Properties of BaseItemList
\* ------------------------------------------------------------------------
StoredCount(arr) == Cardinality({k \in 1 .. Len(arr) : arr[k] # Empty})

\* C9: length equals the number of BaseItem elements stored in items.
C9_LengthIsCount == length = StoredCount(items)

\* C10: delete(index) with index in bounds removes that element only: every
\* other element retrievable before is retrievable afterwards, and item(i)
\* is a stored BaseItem for every i in 0..length-1.
C10_DeleteRemovesOnlyThat ==
    [][\A index \in Indexes : (delete(index) /\ ~OutOfBounds(index)) =>
          /\ \A j \in 0 .. length - 1 :
                (j # index /\ ArrayGet(items, j) \in BaseItems) =>
                    \E i \in 0 .. length' - 1 : ArrayGet(items', i) = ArrayGet(items, j)
          /\ \A i \in 0 .. length' - 1 : ArrayGet(items', i) \in BaseItems]_vars

\* C11: invalid arguments raise a RangeError (item, delete, replace with an
\* index out of bounds) or a TypeError (push, replace with null or with an
\* object that is no BaseItem) and leave items and length unchanged.
C11_InvalidArgumentsThrow ==
    [][/\ \A index \in Indexes :
             ((item(index) \/ delete(index)) /\ OutOfBounds(index)) =>
                 listCall'.thrown = "RangeError" /\ UNCHANGED <<length, items>>
       /\ \A obj \in PushArgs : (push(obj) /\ obj \notin BaseItems) =>
                 listCall'.thrown = "TypeError" /\ UNCHANGED <<length, items>>
       /\ \A index \in Indexes, obj \in PushArgs :
             /\ (replace(index, obj) /\ OutOfBounds(index)) =>
                   listCall'.thrown = "RangeError" /\ UNCHANGED <<length, items>>
             /\ (replace(index, obj) /\ ~OutOfBounds(index) /\ obj \notin BaseItems) =>
                   listCall'.thrown = "TypeError" /\ UNCHANGED <<length, items>>]_vars

\* ------------------------------------------------------------------------
\* execute() without a recipient or a payload
\* ------------------------------------------------------------------------
\* C12: execute() on a controller whose recipient or payload is null throws
\* an Error, sends no request, changes no field of the controller and starts
\* no promise chain, so that neither handler is invoked for it.
C12_ExecuteRefusesNull ==
    [][(execute /\ (recipient = JsNull \/ payload = JsNull)) =>
          /\ ctlCall' = Call("execute", "Error")
          /\ requests' = requests
          /\ settled' = Idle
          /\ UNCHANGED <<kind, recipient, sender, payload, onSuccessEventHandler,
                         onErrorEventHandler, content>>]_vars

\* execute() threw with a recipient stored and no payload
C12_Witness ==
    /\ ctlCall = Call("execute", "Error")
    /\ recipient = Text(UrlA)
    /\ payload = JsNull
    /\ requests = EmptyBag
    /\ settled = Idle

====
